---- MODULE Spec2Model ----
(***************************************************************************)
(* A model of the filter pass of source/view.c: rofi_view_refilter, the    *)
(* chunk tasks it hands to the thread pool (rofi_view_call_thread running  *)
(* filter_elements), the barrier on the shared counter, the merge of the   *)
(* per-chunk results, the sort by lev_sort, and the handlers that request  *)
(* a pass.  Arrays are functions over 0..n-1, as in the C code.            *)
(***************************************************************************)
EXTENDS Integers, Sequences, FiniteSets, TLC

VARIABLES
    entries,          \* what the Mode sw holds: candidate index -> searchable text
    num_lines,        \* state->num_lines
    line_map,         \* state->line_map
    distance,         \* state->distance
    filtered_lines,   \* state->filtered_lines
    text,             \* state->text->text
    tokens,           \* state->tokens (<<>> when NULL)
    reload,           \* state->reload
    refilter,         \* state->refilter
    selected_line,    \* state->selected_line
    retv,             \* state->retv, the set of MENU_ flags that are set
    quit,             \* state->quit
    selected,         \* the cursor of state->list_view
    config_sort,      \* config.sort
    config_auto_select, \* config.auto_select
    config_threads,   \* config.threads, the size of tpool
    config_matching_method, \* config.matching_method
    config_levenshtein_sort, \* config.levenshtein_sort
    prev_action,      \* state->prev_action
    action,           \* the action handed to rofi_view_trigger_action, "none" outside it
    ret,              \* local ret of rofi_view_trigger_action
    tab_preceded,     \* history: the latest action of the user was ROW_TAB
    pc,               \* where the calling thread is
    nt,               \* local nt of rofi_view_refilter
    states,           \* local thread_state states[nt]: the descriptors set up so far
    count,            \* local count, shared through states[i].acount
    mutex,            \* local mutex: its holder, <<>> when free
    signalled,        \* a g_cond_signal reached the waiter in g_cond_wait
    k,                \* loop variable i of the dispatch and merge loops
    j,                \* local j of rofi_view_refilter
    tpc,              \* per chunk: where its rofi_view_call_thread is
    fi,               \* per chunk: loop variable i of filter_elements
    map_writes,       \* log: <<chunk, position>> of every line_map write of the pass
    dist_writes,      \* log: <<chunk, index>> of every distance write of the pass
    partition,        \* the dispatch loop on its own: its inputs, the descriptors it sets up
    current_active_menu, \* current_active_menu: a view, or NULL
    views,            \* CacheState.views, head first
    idle_timeout,     \* CacheState.idle_timeout
    sources,          \* the timeout sources the main loop holds for rofi_view_reload_idle
    unmatched         \* history: the views that were active at the stacking calls not yet
                      \* matched by a call with NULL, oldest first

vars == <<entries, num_lines, line_map, distance, filtered_lines, text, tokens,
          reload, refilter, selected_line, retv, quit, selected, config_sort,
          config_auto_select, config_threads, config_matching_method,
          config_levenshtein_sort, prev_action, action, ret, tab_preceded,
          pc, nt, states, count, mutex,
          signalled, k, j, tpc, fi, map_writes, dist_writes, partition,
          current_active_menu, views, idle_timeout, sources, unmatched>>

view_vars == <<entries, num_lines, line_map, distance, filtered_lines, text, tokens,
               reload, refilter, selected_line, retv, quit, selected>>
config_vars == <<config_sort, config_auto_select, config_threads,
                 config_matching_method, config_levenshtein_sort>>
\* what a call of rofi_view_trigger_action leaves behind it
action_vars == <<prev_action, action, ret, tab_preceded>>
pass_vars == <<pc, nt, states, count, mutex, signalled, k, j, tpc, fi,
               map_writes, dist_writes>>
\* the globals of view.c, and what the pass and the handlers of a view leave alone
cache_vars == <<current_active_menu, views, idle_timeout, sources, unmatched>>
aside_vars == <<partition, current_active_menu, views, idle_timeout, sources, unmatched>>
event_frame == <<nt, states, count, mutex, signalled, k, j, tpc, fi,
                 map_writes, dist_writes>>

(***************************************************************************)
(* Bounds and constants.                                                   *)
(***************************************************************************)
\* The largest number of candidates a Mode holds in the model.
MaxLines == 4

\* Candidates per chunk: view.c has 500 here ( num_lines / 500 ); the model scales
\* it down so that passes of more than one chunk occur within MaxLines.
ThreadLines == 2

\* UINT32_MAX, "no line".  TLC's integers end at 2^31 - 1, so the model uses that
\* value; all that the code uses of it is that it exceeds every index and count.
UINT32_MAX == 2147483647

Min(a, b) == IF a < b THEN a ELSE b
Max(a, b) == IF a > b THEN a ELSE b

\* The searchable texts a candidate can have (the first candidate can also have
\* one that no query of the model matches), and the texts the entry box can hold.
Dict == { <<"a">>, <<"b", "a">> }
FirstDict == Dict \cup { <<"b">> }
Queries == { <<>>, <<"a">>, <<"a", " ", "b">> }
\* what one key press can append: the UTF-8 text of the key or compose sequence
Pads == { <<"a">>, <<" ", "b">> }
ThreadChoices == {1}

Providers ==
    UNION { { sw \in [0 .. n - 1 -> FirstDict] : \A i \in 1 .. n - 1 : sw[i] \in Dict }
            : n \in 0 .. MaxLines }

\* g_malloc0_n ( n, ... ): n zeroed slots
Zeroed(n) == [i \in 0 .. n - 1 |-> 0]

(***************************************************************************)
(* Tokenizer, matcher and scorer (helper.c, mode.c).                       *)
(***************************************************************************)
RECURSIVE SplitFrom(_, _, _)
SplitFrom(s, p, cur) ==
    IF p > Len(s) THEN (IF cur = <<>> THEN <<>> ELSE <<cur>>)
    ELSE IF s[p] = " " THEN (IF cur = <<>> THEN <<>> ELSE <<cur>>) \o SplitFrom(s, p + 1, <<>>)
    ELSE SplitFrom(s, p + 1, Append(cur, s[p]))

\* tokenize ( pattern, case_sensitive ): the whitespace-delimited units of the query
tokenize(pattern) == SplitFrom(pattern, 1, <<>>)

\* plain substring containment of one token
token_match(tok, str) ==
    \E p \in 1 .. Len(str) - Len(tok) + 1 : SubSeq(str, p, p + Len(tok) - 1) = tok

\* how many characters of pattern[pi ..] are found in str[si ..], in order, taking
\* each at its first occurrence
RECURSIVE Subsequence(_, _, _, _)
Subsequence(pattern, pi, str, si) ==
    IF pi > Len(pattern) \/ si > Len(str) THEN 0
    ELSE IF pattern[pi] = str[si] THEN 1 + Subsequence(pattern, pi + 1, str, si + 1)
    ELSE Subsequence(pattern, pi, str, si + 1)

\* fuzzy matching of one token: its characters occur in the text in order
fuzzy_token_match(tok, str) == Subsequence(tok, 1, str, 1) = Len(tok)

\* mode_token_match ( sw, tokens, i ): every token matches the candidate's text,
\* by the predicate of the configured matching method
mode_token_match(sw, toks, i) ==
    \A t \in 1 .. Len(toks) :
        IF config_matching_method = "MM_FUZZY" THEN fuzzy_token_match(toks[t], sw[i])
                                               ELSE token_match(toks[t], sw[i])

\* mode_get_completion ( sw, i )
mode_get_completion(sw, i) == sw[i]

RECURSIVE lev(_, _, _, _)
lev(a, la, b, lb) ==
    IF la = 0 THEN lb
    ELSE IF lb = 0 THEN la
    ELSE Min(Min(lev(a, la - 1, b, lb) + 1, lev(a, la, b, lb - 1) + 1),
             lev(a, la - 1, b, lb - 1) + (IF a[la] = b[lb] THEN 0 ELSE 1))

\* levenshtein ( pattern, plen, str, slen )
levenshtein(pattern, plen, str, slen) == lev(pattern, plen, str, slen)

\* where the first character of the pattern is first found in str (slen if nowhere)
RECURSIVE LeadingGap(_, _, _)
LeadingGap(pattern, str, si) ==
    IF si > Len(str) \/ pattern = <<>> THEN 0
    ELSE IF str[si] = pattern[1] THEN 0
    ELSE 1 + LeadingGap(pattern, str, si + 1)

\* rofi_scorer_fuzzy_evaluate ( pattern, plen, str, slen ): a score, higher is
\* better.  The empty pattern and a pattern equal to the text score 0, the best;
\* every character of either that has no partner, and every character of the text
\* before the first match, costs one.
rofi_scorer_fuzzy_evaluate(pattern, plen, str, slen) ==
    IF plen = 0 THEN 0
    ELSE LET m == Subsequence(pattern, 1, str, 1)
         IN  0 - ((slen - m) + (plen - m) + LeadingGap(pattern, str, 1))

\* filter_elements' choice of scorer
Scorer(pattern, plen, str, slen) ==
    IF config_levenshtein_sort \/ config_matching_method # "MM_FUZZY"
    THEN levenshtein(pattern, plen, str, slen)
    ELSE rofi_scorer_fuzzy_evaluate(pattern, plen, str, slen)

(***************************************************************************)
(* lev_sort and the sort it drives.                                        *)
(***************************************************************************)
\* lev_sort with the operands exchanged
lev_sort_reversed(a, b, distances) == distances[b] - distances[a]

\* lev_sort as a comparison that never answers "equal"
lev_sort_no_ties(a, b, distances) == IF distances[a] >= distances[b] THEN 1 ELSE -1

\* the int difference cannot overflow: the distances are Levenshtein distances or
\* fuzzy scores, no larger in size than the two texts together
lev_sort(a, b, distances) == distances[a] - distances[b]

\* g_qsort_with_data ( line_map, j, sizeof ( int ), lev_sort, distance ): GLib's
\* sort is a stable merge sort; an element moves left only past elements that
\* compare strictly greater.
RECURSIVE SortInsert(_, _, _)
SortInsert(s, x, distances) ==
    IF s = <<>> THEN <<x>>
    ELSE IF lev_sort(s[Len(s)], x, distances) > 0
         THEN Append(SortInsert(SubSeq(s, 1, Len(s) - 1), x, distances), s[Len(s)])
         ELSE Append(s, x)

RECURSIVE StableSort(_, _)
StableSort(s, distances) ==
    IF s = <<>> THEN <<>>
    ELSE SortInsert(StableSort(SubSeq(s, 1, Len(s) - 1), distances), s[Len(s)], distances)

\* line_map[0 .. n) as a sequence
Prefix(lm, n) == [p \in 1 .. n |-> lm[p - 1]]

\* the sort left out
g_qsort_skipped(lm, n, distances) == lm

\* the sort of rofi_view_refilter applied to line_map[0 .. n)
g_qsort_with_data(lm, n, distances) ==
    LET s == StableSort(Prefix(lm, n), distances)
    IN  [p \in DOMAIN lm |-> IF p < n THEN s[p + 1] ELSE lm[p]]

(***************************************************************************)
(* Chunk geometry of rofi_view_refilter.                                   *)
(***************************************************************************)
\* nt = MAX ( 1, num_lines / per ), per being 500 in view.c
ChunkCount(n, per) == Max(1, n \div per)

\* steps rounded down, so that the last candidates fall outside every chunk
ChunkSteps_floor(n, cnt) == n \div cnt

\* steps = ( num_lines + nt ) / nt
ChunkSteps(n, cnt) == (n + cnt) \div cnt

\* states[i].start = i * steps
DescStart(i, st) == i * st

\* the stop of a chunk not cut at num_lines
DescStop_unclamped(n, i, st) == (i + 1) * st

\* states[i].stop = MIN ( num_lines, ( i + 1 ) * steps )
DescStop(n, i, st) == Min(n, (i + 1) * st)

\* every chunk pushed to the pool, the first one too
Pushed_all(i) == TRUE

\* if ( i > 0 ) g_thread_pool_push ( tpool, &states[i], NULL )
Pushed(i) == i > 0

\* the number of chunks taken from the size of the pool
NumThreads_budget(n) == config_threads

\* the same with the model's scaled-down chunk size
NumThreads(n) == ChunkCount(n, ThreadLines)
Steps(n) == ChunkSteps(n, NumThreads(n))
ChunkStart(n, i) == DescStart(i, Steps(n))
\* a chunk that runs one candidate into the next chunk
ChunkStop_overlap(n, i) == Min(n, (i + 1) * Steps(n) + 1)

ChunkStop(n, i) == DescStop(n, i, Steps(n))

Chunks == 0 .. (NumThreads(MaxLines) - 1)

(***************************************************************************)
(* The view after rofi_view_create has built it, about to run its first    *)
(* rofi_view_refilter; config is whatever the command line set.            *)
(***************************************************************************)
MutexFree == <<>>
NoStates == [c \in {} |-> 0]
NoTasks == [c \in Chunks |-> "none"]
NoIndex == [c \in Chunks |-> 0]

PassIdle ==
    /\ nt = 0 /\ states = NoStates /\ count = 0 /\ mutex = MutexFree
    /\ signalled = FALSE /\ k = 0 /\ j = 0 /\ tpc = NoTasks /\ fi = NoIndex
    /\ map_writes = {} /\ dist_writes = {}

\* NULL, and the view the model follows: the first one created
NULL == 0
TheView == 1

\* the view is the active one, no view is stacked, no reload is pending
ActiveAlone ==
    /\ current_active_menu = TheView
    /\ views = <<>>
    /\ idle_timeout = 0
    /\ sources = {}
    /\ unmatched = <<>>

\* no dispatch loop looked at on its own
NoPartition == [n |-> 0, threads |-> 0, nt |-> 0, states |-> NoStates]

\* what __rofi_view_state_create and rofi_view_create set, whatever the matching
\* configuration; the pool has one of the sizes in threads
CreatedWith(threads) ==
    /\ entries \in Providers
    /\ num_lines = Cardinality(DOMAIN entries)
    /\ line_map = Zeroed(num_lines)
    /\ distance = Zeroed(num_lines)
    /\ filtered_lines = 0
    /\ text \in Queries
    /\ tokens = <<>>
    /\ reload = FALSE
    /\ refilter = TRUE
    /\ selected_line = UINT32_MAX
    /\ retv = {"MENU_CANCEL"}
    /\ quit = FALSE
    /\ selected = 0
    /\ config_sort \in BOOLEAN
    /\ config_auto_select \in BOOLEAN
    /\ config_threads \in threads
    /\ prev_action = "PASTE_PRIMARY"
    /\ action = "none"
    /\ ret = TRUE
    /\ tab_preceded = FALSE
    /\ pc = "create"
    /\ PassIdle
    /\ partition = NoPartition
    /\ ActiveAlone

Created == CreatedWith(ThreadChoices)

\* rofi started with the default matching method
Init ==
    /\ Created
    /\ config_matching_method = "MM_NORMAL"
    /\ config_levenshtein_sort = FALSE

\* rofi started with -matching fuzzy, with or without -levenshtein-sort
FuzzyInit ==
    /\ Created
    /\ config_matching_method = "MM_FUZZY"
    /\ config_levenshtein_sort \in BOOLEAN

(***************************************************************************)
(* rofi_view_refilter up to the dispatch loop (or, for an empty query,     *)
(* up to the bookkeeping that ends it).  rl is state->reload on entry.     *)
(***************************************************************************)
\* the reload step keeping the old candidate count
_rofi_view_reload_row_stale(sw) ==
    /\ entries' = sw
    /\ num_lines' = num_lines

\* _rofi_view_reload_row: the view reads the Mode's entries anew
_rofi_view_reload_row(sw) ==
    /\ entries' = sw
    /\ num_lines' = Cardinality(DOMAIN sw)

\* the empty query treated like any other
HasQuery_always(txt) == TRUE

\* strlen ( state->text->text ) > 0
HasQuery(txt) == Len(txt) > 0

\* the empty-query branch leaving line_map as allocated
IdentityMap_unset(n) == Zeroed(n)

\* the empty-query branch: line_map[i] = i
IdentityMap(n) == [i \in 0 .. n - 1 |-> i]

RefilterEnter(rl) ==
    \E sw \in (IF rl THEN Providers ELSE {entries}) :
        LET n  == IF rl THEN Cardinality(DOMAIN sw) ELSE num_lines
            lm == IF rl THEN Zeroed(n) ELSE line_map
            ds == IF rl THEN Zeroed(n) ELSE distance
        IN  /\ IF rl THEN _rofi_view_reload_row(sw)
                     ELSE UNCHANGED <<entries, num_lines>>
            /\ reload' = FALSE
            /\ distance' = ds
            /\ IF HasQuery(text)
               THEN /\ tokens' = tokenize(text)
                    /\ line_map' = lm
                    /\ nt' = NumThreads(n)
                    /\ count' = NumThreads(n)
                    /\ pc' = "dispatch"
                    /\ UNCHANGED <<filtered_lines, states, mutex, signalled, k, j,
                                   tpc, fi, map_writes, dist_writes>>
               ELSE /\ tokens' = <<>>
                    /\ line_map' = IdentityMap(n)
                    /\ filtered_lines' = n
                    /\ pc' = "finish"
                    /\ UNCHANGED <<nt, states, count, mutex, signalled, k, j,
                                   tpc, fi, map_writes, dist_writes>>

\* the first pass, called from rofi_view_create
rofi_view_create ==
    /\ pc = "create"
    /\ RefilterEnter(reload)
    /\ UNCHANGED <<text, refilter, selected_line, retv, quit, selected>>
    /\ UNCHANGED config_vars
    /\ UNCHANGED aside_vars
    /\ UNCHANGED action_vars

\* the event dispatcher, after the event: if ( state->refilter ) rofi_view_refilter
rofi_view_refilter ==
    /\ pc = "update"
    /\ refilter
    /\ RefilterEnter(reload)
    /\ action' = "none" /\ ret' = TRUE
    /\ UNCHANGED <<prev_action, tab_preceded>>
    /\ UNCHANGED <<text, refilter, selected_line, retv, quit, selected>>
    /\ UNCHANGED config_vars
    /\ UNCHANGED aside_vars

\* rofi_view_switch_mode: restart, flag reload and refilter, run the pass
rofi_view_switch_mode ==
    /\ pc = "idle"
    /\ quit' = FALSE
    /\ retv' = {"MENU_CANCEL"}
    /\ refilter' = TRUE
    /\ RefilterEnter(TRUE)
    /\ UNCHANGED <<text, selected_line, selected>>
    /\ UNCHANGED config_vars
    /\ UNCHANGED aside_vars
    /\ UNCHANGED action_vars

(***************************************************************************)
(* The dispatch loop: set up states[k]; push every chunk but the first.    *)
(***************************************************************************)
Dispatch ==
    /\ pc = "dispatch"
    /\ k < nt
    /\ states' = states @@ (k :> [start |-> ChunkStart(num_lines, k),
                                  stop  |-> ChunkStop(num_lines, k),
                                  count |-> 0])
    /\ tpc' = IF Pushed(k) THEN [tpc EXCEPT ![k] = "queued"] ELSE tpc
    /\ k' = k + 1
    /\ pc' = IF k + 1 = nt THEN "call" ELSE "dispatch"
    /\ UNCHANGED view_vars
    /\ UNCHANGED config_vars
    /\ UNCHANGED aside_vars
    /\ UNCHANGED action_vars
    /\ UNCHANGED <<nt, count, mutex, signalled, j, fi, map_writes, dist_writes>>

\* where a task goes once its loop variable is i: on with the loop, or to the lock
AfterFilter(c, i) == IF i < states[c].stop THEN "filter" ELSE "lock"

\* rofi_view_call_thread ( &states[0], NULL ) on the calling thread
CallThread ==
    /\ pc = "call"
    /\ pc' = "in_call"
    /\ fi' = [fi EXCEPT ![0] = states[0].start]
    /\ tpc' = [tpc EXCEPT ![0] = AfterFilter(0, states[0].start)]
    /\ UNCHANGED view_vars
    /\ UNCHANGED config_vars
    /\ UNCHANGED aside_vars
    /\ UNCHANGED action_vars
    /\ UNCHANGED <<nt, states, count, mutex, signalled, k, j, map_writes, dist_writes>>

Running == {"filter", "lock", "dec", "unlock"}

\* a pool thread takes a pushed task; tpool has config.threads threads
PoolTake(c) ==
    /\ c > 0
    /\ tpc[c] = "queued"
    /\ Cardinality({d \in Chunks : d > 0 /\ tpc[d] \in Running}) < config_threads
    /\ fi' = [fi EXCEPT ![c] = states[c].start]
    /\ tpc' = [tpc EXCEPT ![c] = AfterFilter(c, states[c].start)]
    /\ UNCHANGED view_vars
    /\ UNCHANGED config_vars
    /\ UNCHANGED aside_vars
    /\ UNCHANGED action_vars
    /\ UNCHANGED <<pc, nt, states, count, mutex, signalled, k, j, map_writes, dist_writes>>

(***************************************************************************)
(* filter_elements: one iteration of its loop for chunk c.                 *)
(***************************************************************************)
\* matches stored from the end of the chunk's range downwards
MatchSlot_downwards(t) == t.stop - 1 - t.count

\* the slot a match is stored in: line_map[t->start + t->count]
MatchSlot(t) == t.start + t.count

\* a distance stored for every match, sorting or not
ScoreWritten_unsorted(match, sort) == match

\* if ( match ) { ... if ( config.sort ) { ... distance[i] = ... } }
ScoreWritten(match, sort) == match /\ sort

filter_elements(c) ==
    /\ tpc[c] = "filter"
    /\ LET t     == states[c]
           i     == fi[c]
           match == mode_token_match(entries, tokens, i)
           str   == mode_get_completion(entries, i)
       IN  /\ IF match
              THEN /\ line_map' = [line_map EXCEPT ![MatchSlot(t)] = i]
                   /\ map_writes' = map_writes \cup {<<c, MatchSlot(t)>>}
                   /\ states' = [states EXCEPT ![c].count = t.count + 1]
              ELSE UNCHANGED <<line_map, map_writes, states>>
           /\ IF ScoreWritten(match, config_sort)
              THEN /\ distance' = [distance EXCEPT
                          ![i] = Scorer(text, Len(text), str, Len(str))]
                   /\ dist_writes' = dist_writes \cup {<<c, i>>}
              ELSE UNCHANGED <<distance, dist_writes>>
           /\ fi' = [fi EXCEPT ![c] = i + 1]
           /\ tpc' = [tpc EXCEPT ![c] = AfterFilter(c, i + 1)]
    /\ UNCHANGED <<entries, num_lines, filtered_lines, text, tokens, reload, refilter,
                   selected_line, retv, quit, selected>>
    /\ UNCHANGED config_vars
    /\ UNCHANGED aside_vars
    /\ UNCHANGED action_vars
    /\ UNCHANGED <<pc, nt, count, mutex, signalled, k, j>>

(***************************************************************************)
(* rofi_view_call_thread after the callback: lock, decrement and signal,   *)
(* unlock.                                                                 *)
(***************************************************************************)
TaskLock(c) ==
    /\ tpc[c] = "lock"
    /\ mutex = MutexFree
    /\ mutex' = <<"task", c>>
    /\ tpc' = [tpc EXCEPT ![c] = "dec"]
    /\ UNCHANGED view_vars
    /\ UNCHANGED config_vars
    /\ UNCHANGED aside_vars
    /\ UNCHANGED action_vars
    /\ UNCHANGED <<pc, nt, states, count, signalled, k, j, fi, map_writes, dist_writes>>

\* the signal left out
g_cond_signal_missing(waiter, s) == s

\* g_cond_signal: wakes the thread waiting in g_cond_wait, if there is one
g_cond_signal(waiter, s) == IF waiter = "waiting" THEN TRUE ELSE s

TaskDec(c) ==
    /\ tpc[c] = "dec"
    /\ count' = count - 1
    /\ signalled' = g_cond_signal(pc, signalled)
    /\ tpc' = [tpc EXCEPT ![c] = "unlock"]
    /\ UNCHANGED view_vars
    /\ UNCHANGED config_vars
    /\ UNCHANGED aside_vars
    /\ UNCHANGED action_vars
    /\ UNCHANGED <<pc, nt, states, mutex, k, j, fi, map_writes, dist_writes>>

\* the calling thread going on to the merge without the barrier
AfterCall_merge == "merge"

\* where the calling thread goes when its own rofi_view_call_thread returns
AfterCall == IF nt > 1 THEN "barrier_lock" ELSE "merge"

TaskUnlock(c) ==
    /\ tpc[c] = "unlock"
    /\ mutex' = MutexFree
    /\ tpc' = [tpc EXCEPT ![c] = "done"]
    /\ pc' = IF c = 0 THEN AfterCall ELSE pc
    /\ k' = IF c = 0 THEN 0 ELSE k
    /\ UNCHANGED view_vars
    /\ UNCHANGED config_vars
    /\ UNCHANGED aside_vars
    /\ UNCHANGED action_vars
    /\ UNCHANGED <<nt, states, count, signalled, j, fi, map_writes, dist_writes>>

rofi_view_call_thread(c) ==
    \/ filter_elements(c)
    \/ TaskLock(c)
    \/ TaskDec(c)
    \/ TaskUnlock(c)

(***************************************************************************)
(* The barrier: g_mutex_lock; while ( count > 0 ) g_cond_wait; unlock.     *)
(***************************************************************************)
BarrierLock ==
    /\ pc = "barrier_lock"
    /\ mutex = MutexFree
    /\ mutex' = <<"main">>
    /\ pc' = "barrier_test"
    /\ UNCHANGED view_vars
    /\ UNCHANGED config_vars
    /\ UNCHANGED aside_vars
    /\ UNCHANGED action_vars
    /\ UNCHANGED <<nt, states, count, signalled, k, j, tpc, fi, map_writes, dist_writes>>

\* the wait loop left one task early
WaitWhile_early(cnt) == cnt > 1

\* while ( count > 0 )
WaitWhile(cnt) == cnt > 0

\* the loop test; g_cond_wait releases the mutex as it starts to wait
BarrierTest ==
    /\ pc = "barrier_test"
    /\ IF WaitWhile(count)
       THEN /\ mutex' = MutexFree
            /\ signalled' = FALSE
            /\ pc' = "waiting"
       ELSE /\ pc' = "barrier_unlock"
            /\ UNCHANGED <<mutex, signalled>>
    /\ UNCHANGED view_vars
    /\ UNCHANGED config_vars
    /\ UNCHANGED aside_vars
    /\ UNCHANGED action_vars
    /\ UNCHANGED <<nt, states, count, k, j, tpc, fi, map_writes, dist_writes>>

\* g_cond_wait returns, holding the mutex again: woken by a signal
CondWake ==
    /\ pc = "waiting"
    /\ signalled
    /\ mutex = MutexFree
    /\ mutex' = <<"main">>
    /\ pc' = "barrier_test"
    /\ UNCHANGED view_vars
    /\ UNCHANGED config_vars
    /\ UNCHANGED aside_vars
    /\ UNCHANGED action_vars
    /\ UNCHANGED <<nt, states, count, signalled, k, j, tpc, fi, map_writes, dist_writes>>

\* g_cond_wait may also return with no signal
SpuriousWake ==
    /\ pc = "waiting"
    /\ ~signalled
    /\ mutex = MutexFree
    /\ mutex' = <<"main">>
    /\ pc' = "barrier_test"
    /\ UNCHANGED view_vars
    /\ UNCHANGED config_vars
    /\ UNCHANGED aside_vars
    /\ UNCHANGED action_vars
    /\ UNCHANGED <<nt, states, count, signalled, k, j, tpc, fi, map_writes, dist_writes>>

BarrierUnlock ==
    /\ pc = "barrier_unlock"
    /\ mutex' = MutexFree
    /\ pc' = "merge"
    /\ k' = 0
    /\ UNCHANGED view_vars
    /\ UNCHANGED config_vars
    /\ UNCHANGED aside_vars
    /\ UNCHANGED action_vars
    /\ UNCHANGED <<nt, states, count, signalled, j, tpc, fi, map_writes, dist_writes>>

(***************************************************************************)
(* After the barrier: merge the chunks, sort, publish.                     *)
(***************************************************************************)
\* the chunk results left where the tasks wrote them
memmove_missing(lm, dst, src, n) == lm

\* memmove ( &lm[dst], &lm[src], n slots )
memmove(lm, dst, src, n) ==
    [p \in DOMAIN lm |-> IF dst <= p /\ p < dst + n THEN lm[p - dst + src] ELSE lm[p]]

Merge ==
    /\ pc = "merge"
    /\ k < nt
    /\ line_map' = IF j # states[k].start
                   THEN memmove(line_map, j, states[k].start, states[k].count)
                   ELSE line_map
    /\ j' = j + states[k].count
    /\ k' = k + 1
    /\ pc' = IF k + 1 = nt THEN "sort" ELSE "merge"
    /\ UNCHANGED <<entries, num_lines, distance, filtered_lines, text, tokens, reload,
                   refilter, selected_line, retv, quit, selected>>
    /\ UNCHANGED config_vars
    /\ UNCHANGED aside_vars
    /\ UNCHANGED action_vars
    /\ UNCHANGED <<nt, states, count, mutex, signalled, tpc, fi, map_writes, dist_writes>>

SortPublish ==
    /\ pc = "sort"
    /\ line_map' = IF config_sort THEN g_qsort_with_data(line_map, j, distance)
                                  ELSE line_map
    /\ filtered_lines' = j
    /\ pc' = "finish"
    /\ UNCHANGED <<entries, num_lines, distance, text, tokens, reload, refilter,
                   selected_line, retv, quit, selected>>
    /\ UNCHANGED config_vars
    /\ UNCHANGED aside_vars
    /\ UNCHANGED action_vars
    /\ UNCHANGED <<nt, states, count, mutex, signalled, k, j, tpc, fi, map_writes,
                   dist_writes>>

\* listview_set_num_elements: the cursor is kept inside [0, rows), none if rows = 0
listview_set_num_elements(sel, rows) ==
    IF rows = 0 THEN UINT32_MAX
    ELSE IF sel = UINT32_MAX THEN 0
    ELSE Min(sel, rows - 1)

\* auto select also when the one match is the only candidate
AutoSelect_single(auto, rows, lines) == auto /\ rows = 1

\* config.auto_select == TRUE && filtered_lines == 1 && num_lines > 1
AutoSelect(auto, rows, lines) == auto /\ rows = 1 /\ lines > 1

\* the end of rofi_view_refilter: cursor, auto select, refilter = FALSE
Finish ==
    /\ pc = "finish"
    /\ selected' = listview_set_num_elements(selected, filtered_lines)
    /\ IF AutoSelect(config_auto_select, filtered_lines, num_lines)
       THEN /\ selected_line' = line_map[selected']
            /\ retv' = {"MENU_OK"}
            /\ quit' = TRUE
       ELSE UNCHANGED <<selected_line, retv, quit>>
    /\ refilter' = FALSE
    /\ pc' = "idle"
    /\ nt' = 0 /\ states' = NoStates /\ count' = 0 /\ k' = 0 /\ j' = 0
    /\ tpc' = NoTasks /\ fi' = NoIndex /\ map_writes' = {} /\ dist_writes' = {}
    /\ UNCHANGED <<mutex, signalled>>
    /\ UNCHANGED <<entries, num_lines, line_map, distance, filtered_lines, text, tokens,
                   reload>>
    /\ UNCHANGED config_vars
    /\ UNCHANGED aside_vars
    /\ UNCHANGED action_vars

(***************************************************************************)
(* Handlers that request a pass.                                           *)
(***************************************************************************)
\* rofi_view_handle_keypress: textbox_append_char took the typed character
handle_keypress ==
    /\ pc = "idle"
    /\ ~quit
    /\ \E pad \in Pads :
          /\ (text \o pad) \in Queries
          /\ text' = text \o pad
    /\ refilter' = TRUE
    /\ pc' = "update"
    /\ action' = "NUM_ABE" /\ ret' = FALSE /\ tab_preceded' = FALSE
    /\ UNCHANGED prev_action
    /\ UNCHANGED <<entries, num_lines, line_map, distance, filtered_lines, tokens,
                   reload, selected_line, retv, quit, selected>>
    /\ UNCHANGED config_vars
    /\ UNCHANGED aside_vars
    /\ UNCHANGED event_frame

\* rofi_view_trigger_action, the editing bindings: textbox_keybinding returned 1
textbox_keybinding ==
    /\ pc = "idle"
    /\ ~quit
    /\ \E n \in 0 .. Len(text) - 1 : text' = SubSeq(text, 1, n)
    /\ text' \in Queries
    /\ refilter' = TRUE
    /\ pc' = "update"
    /\ action' = "REMOVE_TO_EOL" /\ ret' = TRUE /\ tab_preceded' = FALSE
    /\ UNCHANGED prev_action
    /\ UNCHANGED <<entries, num_lines, line_map, distance, filtered_lines, tokens,
                   reload, selected_line, retv, quit, selected>>
    /\ UNCHANGED config_vars
    /\ UNCHANGED aside_vars
    /\ UNCHANGED event_frame

\* rofi_view_trigger_action, TOGGLE_SORT
toggle_sort ==
    /\ pc = "idle"
    /\ ~quit
    /\ config_sort' = ~config_sort
    /\ refilter' = TRUE
    /\ pc' = "update"
    /\ UNCHANGED <<entries, num_lines, line_map, distance, filtered_lines, text, tokens,
                   reload, selected_line, retv, quit, selected>>
    /\ UNCHANGED <<config_auto_select, config_threads, config_matching_method,
                   config_levenshtein_sort>>
    /\ UNCHANGED aside_vars
    /\ action' = "TOGGLE_SORT" /\ ret' = TRUE /\ tab_preceded' = FALSE
    /\ UNCHANGED prev_action
    /\ UNCHANGED event_frame

\* rofi_view_reload_idle on the active view
rofi_view_reload_idle ==
    /\ pc = "idle"
    /\ ~quit
    /\ reload' = TRUE
    /\ refilter' = TRUE
    /\ UNCHANGED <<entries, num_lines, line_map, distance, filtered_lines, text, tokens,
                   selected_line, retv, quit, selected>>
    /\ UNCHANGED config_vars
    /\ UNCHANGED aside_vars
    /\ UNCHANGED action_vars
    /\ UNCHANGED pass_vars

\* an event that changes nothing of the view (pointer motion, expose, key release)
other_event ==
    /\ pc = "idle"
    /\ ~quit
    /\ pc' = "update"
    /\ UNCHANGED view_vars
    /\ UNCHANGED config_vars
    /\ UNCHANGED aside_vars
    /\ UNCHANGED action_vars
    /\ UNCHANGED event_frame

\* the event dispatcher going back to the events without the pass that was requested
rofi_view_update_always ==
    /\ pc = "update"
    /\ pc' = "idle"
    /\ action' = "none" /\ ret' = TRUE
    /\ UNCHANGED <<prev_action, tab_preceded>>
    /\ UNCHANGED view_vars
    /\ UNCHANGED config_vars
    /\ UNCHANGED aside_vars
    /\ UNCHANGED event_frame

\* the event dispatcher, after the event, with no refilter requested
rofi_view_update ==
    /\ pc = "update"
    /\ ~refilter
    /\ pc' = "idle"
    /\ action' = "none" /\ ret' = TRUE
    /\ UNCHANGED <<prev_action, tab_preceded>>
    /\ UNCHANGED view_vars
    /\ UNCHANGED config_vars
    /\ UNCHANGED aside_vars
    /\ UNCHANGED event_frame

(***************************************************************************)
(* The cursor of the list view (listview.c).  sel is the cursor, rows the   *)
(* number of rows the list holds: filtered_lines, since the end of the     *)
(* latest pass.                                                            *)
(***************************************************************************)
\* rows of one column of the list, the step of left, right and the page moves
PageRows == 2

\* listview_set_selected ( lv, target ): clamped; nothing on an empty list
listview_set_selected(sel, rows, target) ==
    IF rows > 0 THEN Min(target, rows - 1) ELSE sel

\* a cursor move by delta rows, clamped, not wrapped; nothing on an empty list
listview_nav(sel, rows, delta) ==
    IF rows > 0 THEN Max(0, Min(sel + delta, rows - 1)) ELSE sel

listview_nav_up(sel, rows) == listview_nav(sel, rows, 0 - 1)
listview_nav_down(sel, rows) == listview_nav(sel, rows, 1)
listview_nav_left(sel, rows) == listview_nav(sel, rows, 0 - PageRows)
listview_nav_right(sel, rows) == listview_nav(sel, rows, PageRows)
listview_nav_page_prev(sel, rows) == listview_nav(sel, rows, 0 - PageRows)
listview_nav_page_next(sel, rows) == listview_nav(sel, rows, PageRows)

(***************************************************************************)
(* rofi_view_trigger_action ( state, action ), one action per case of its  *)
(* switch.  TOGGLE_SORT and the editing bindings are above.                *)
(***************************************************************************)
\* the call and its return value; what no case of the switch touches
Triggered(act, r) ==
    /\ pc = "idle"
    /\ ~quit
    /\ pc' = "update"
    /\ action' = act
    /\ ret' = r
    /\ tab_preceded' = (act = "ROW_TAB")
    /\ UNCHANGED <<entries, num_lines, line_map, distance, filtered_lines, tokens,
                   reload>>
    /\ UNCHANGED config_vars
    /\ UNCHANGED aside_vars
    /\ UNCHANGED event_frame

\* a case that ends the view: retv, selected_line, quit = TRUE
Ends(act, rv, line) ==
    /\ Triggered(act, TRUE)
    /\ retv' = rv
    /\ selected_line' = line
    /\ quit' = TRUE
    /\ UNCHANGED <<text, refilter, selected, prev_action>>

\* PASTE_PRIMARY, PASTE_SECONDARY, SCREENSHOT: nothing of the view changes
trigger_SCREENSHOT ==
    /\ Triggered("SCREENSHOT", TRUE)
    /\ UNCHANGED <<text, refilter, selected_line, retv, quit, selected, prev_action>>

trigger_MODE_PREVIOUS == Ends("MODE_PREVIOUS", {"MENU_PREVIOUS"}, 0)

trigger_MODE_NEXT == Ends("MODE_NEXT", {"MENU_NEXT"}, 0)

\* config.case_sensitive itself is not in the model: no text of it has a capital
trigger_TOGGLE_CASE_SENSITIVITY ==
    /\ Triggered("TOGGLE_CASE_SENSITIVITY", TRUE)
    /\ selected_line' = 0
    /\ refilter' = TRUE
    /\ UNCHANGED <<text, retv, quit, selected, prev_action>>

\* DELETE_ENTRY with the rejection left out
DeleteApplies_always(sel, rows) == TRUE

\* DELETE_ENTRY: if ( selected < state->filtered_lines )
DeleteApplies(sel, rows) == sel < rows

trigger_DELETE_ENTRY ==
    IF DeleteApplies(selected, filtered_lines)
    THEN Ends("DELETE_ENTRY", {"MENU_ENTRY_DELETE"},
              IF selected \in DOMAIN line_map THEN line_map[selected] ELSE 0)
    ELSE /\ Triggered("DELETE_ENTRY", FALSE)
         /\ UNCHANGED <<text, refilter, selected_line, retv, quit, selected, prev_action>>

\* SELECT_ELEMENT_1 .. SELECT_ELEMENT_10: index = action - SELECT_ELEMENT_1
SELECT_ELEMENT == [SELECT_ELEMENT_1 |-> 0, SELECT_ELEMENT_2 |-> 1, SELECT_ELEMENT_10 |-> 9]

\* SELECT_ELEMENT tested against the candidate count
SelectApplies_capacity(index, rows, lines) == index < lines

\* SELECT_ELEMENT: if ( index < state->filtered_lines )
SelectApplies(index, rows, lines) == index < rows

trigger_SELECT_ELEMENT ==
    \E act \in DOMAIN SELECT_ELEMENT :
        LET index == SELECT_ELEMENT[act]
        IN  IF SelectApplies(index, filtered_lines, num_lines)
            THEN Ends(act, {"MENU_OK"}, line_map[index])
            ELSE /\ Triggered(act, TRUE)
                 /\ UNCHANGED <<text, refilter, selected_line, retv, quit, selected,
                                prev_action>>

\* CUSTOM_1 .. CUSTOM_19: action - CUSTOM_1
CUSTOM == [CUSTOM_1 |-> 0, CUSTOM_2 |-> 1, CUSTOM_4 |-> 3]

\* the bits of n & MENU_LOWER_MASK, as flags
MENU_LOWER_MASK == [LOWER_1 |-> 1, LOWER_2 |-> 2, LOWER_4 |-> 4, LOWER_8 |-> 8,
                    LOWER_16 |-> 16]
LowerBits(n) == { b \in DOMAIN MENU_LOWER_MASK : (n \div MENU_LOWER_MASK[b]) % 2 = 1 }

\* the line left as it was when the cursor is on no row
CursorLine_kept(sel, rows, lm) == IF sel < rows THEN lm[sel] ELSE selected_line

\* selected_line = UINT32_MAX; if ( selected < filtered_lines ) selected_line =
\* line_map[selected]
CursorLine(sel, rows, lm) == IF sel < rows THEN lm[sel] ELSE UINT32_MAX

trigger_CUSTOM ==
    \E act \in DOMAIN CUSTOM :
        Ends(act, {"MENU_QUICK_SWITCH"} \cup LowerBits(CUSTOM[act]),
             CursorLine(selected, filtered_lines, line_map))

\* CANCEL with the outcome of MODE_NEXT
CancelRetv_next == {"MENU_NEXT"}

\* CANCEL: state->retv = MENU_CANCEL
CancelRetv == {"MENU_CANCEL"}

\* CANCEL assigns retv and quit only
trigger_CANCEL == Ends("CANCEL", CancelRetv, selected_line)

\* rofi_view_nav_first as the line it has commented out: state->selected = 0
rofi_view_nav_first_direct(sel, rows) == 0

rofi_view_nav_first(sel, rows) == listview_set_selected(sel, rows, 0)

\* listview_set_selected ( lv, -1 ): -1 is UINT_MAX
rofi_view_nav_last(sel, rows) ==
    IF rows = 0 THEN sel ELSE listview_set_selected(sel, rows, UINT32_MAX)

\* the cases of the switch that move the cursor
Navigate ==
    [ROW_UP    |-> listview_nav_up(selected, filtered_lines),
     ROW_DOWN  |-> listview_nav_down(selected, filtered_lines),
     ROW_LEFT  |-> listview_nav_left(selected, filtered_lines),
     ROW_RIGHT |-> listview_nav_right(selected, filtered_lines),
     PAGE_PREV |-> listview_nav_page_prev(selected, filtered_lines),
     PAGE_NEXT |-> listview_nav_page_next(selected, filtered_lines),
     ROW_FIRST |-> rofi_view_nav_first(selected, filtered_lines),
     ROW_LAST  |-> rofi_view_nav_last(selected, filtered_lines)]

trigger_nav ==
    /\ pc = "idle"
    /\ \E act \in DOMAIN Navigate :
          /\ Triggered(act, TRUE)
          /\ selected' = Navigate[act]
          /\ UNCHANGED <<text, refilter, selected_line, retv, quit, prev_action>>

\* Tab that takes a list of one row as any other
SingleRow_never(rows) == FALSE

\* rofi_view_nav_row_tab: if ( state->filtered_lines == 1 )
SingleRow(rows) == rows = 1

\* ROW_TAB: rofi_view_nav_row_tab
rofi_view_nav_row_tab ==
    IF SingleRow(filtered_lines)
    THEN Ends("ROW_TAB", {"MENU_OK"}, line_map[selected])
    ELSE /\ Triggered("ROW_TAB", TRUE)
         /\ IF filtered_lines = 0 /\ prev_action = "ROW_TAB"
            THEN /\ retv' = {"MENU_NEXT"}
                 /\ selected_line' = 0
                 /\ quit' = TRUE
                 /\ UNCHANGED selected
            ELSE /\ selected' = listview_nav_down(selected, filtered_lines)
                 /\ UNCHANGED <<retv, selected_line, quit>>
         /\ prev_action' = "ROW_TAB"
         /\ UNCHANGED <<text, refilter>>

\* ROW_SELECT: rofi_view_nav_row_select puts the row's completion in the entry box
rofi_view_nav_row_select ==
    /\ Triggered("ROW_SELECT", TRUE)
    /\ IF selected < filtered_lines
       THEN /\ mode_get_completion(entries, line_map[selected]) \in Queries
            /\ text' = mode_get_completion(entries, line_map[selected])
            /\ refilter' = TRUE
       ELSE UNCHANGED <<text, refilter>>
    /\ UNCHANGED <<selected_line, retv, quit, selected, prev_action>>

\* ACCEPT_ENTRY that keeps MENU_OK without a row
AcceptRetv_ok(sel, rows) == {"MENU_OK"}

\* ACCEPT_ENTRY and ACCEPT_ALT: MENU_OK on a row, MENU_CUSTOM_INPUT without
AcceptRetv(sel, rows) == IF sel < rows THEN {"MENU_OK"} ELSE {"MENU_CUSTOM_INPUT"}

\* ACCEPT_ALT without its flag
AltFlag_missing(rv) == rv

\* ACCEPT_ALT: state->retv |= MENU_CUSTOM_ACTION
AltFlag(rv) == rv \cup {"MENU_CUSTOM_ACTION"}

trigger_ACCEPT_ALT ==
    Ends("ACCEPT_ALT", AltFlag(AcceptRetv(selected, filtered_lines)),
         CursorLine(selected, filtered_lines, line_map))

trigger_ACCEPT_CUSTOM == Ends("ACCEPT_CUSTOM", {"MENU_CUSTOM_INPUT"}, UINT32_MAX)

trigger_ACCEPT_ENTRY ==
    Ends("ACCEPT_ENTRY", AcceptRetv(selected, filtered_lines),
         CursorLine(selected, filtered_lines, line_map))

rofi_view_trigger_action ==
    \/ trigger_SCREENSHOT
    \/ trigger_MODE_PREVIOUS
    \/ trigger_MODE_NEXT
    \/ trigger_TOGGLE_CASE_SENSITIVITY
    \/ trigger_DELETE_ENTRY
    \/ trigger_SELECT_ELEMENT
    \/ trigger_CUSTOM
    \/ trigger_CANCEL
    \/ trigger_nav
    \/ rofi_view_nav_row_tab
    \/ rofi_view_nav_row_select
    \/ trigger_ACCEPT_ALT
    \/ trigger_ACCEPT_CUSTOM
    \/ trigger_ACCEPT_ENTRY

\* the steps of a pass, and the call that starts the first one
NextPass ==
    \/ rofi_view_create
    \/ Dispatch
    \/ CallThread
    \/ \E c \in Chunks : PoolTake(c)
    \/ \E c \in Chunks : rofi_view_call_thread(c)
    \/ BarrierLock
    \/ BarrierTest
    \/ CondWake
    \/ SpuriousWake
    \/ BarrierUnlock
    \/ Merge
    \/ SortPublish
    \/ Finish

Next ==
    \/ NextPass
    \/ rofi_view_refilter
    \/ rofi_view_switch_mode
    \/ handle_keypress
    \/ textbox_keybinding
    \/ toggle_sort
    \/ rofi_view_reload_idle
    \/ other_event
    \/ rofi_view_update

Spec == Init /\ [][Next]_vars

\* the list view calls its mouse_activated callback for a click on the row that
\* has the cursor
listview_activates(sel, rows) == sel < rows

\* rofi_view_listview_mouse_activated_cb; control is the state of the Control key
rofi_view_listview_mouse_activated_cb ==
    /\ pc = "idle"
    /\ ~quit
    /\ listview_activates(selected, filtered_lines)
    /\ \E control \in BOOLEAN :
          retv' = {"MENU_OK"} \cup (IF control THEN {"MENU_CUSTOM_ACTION"} ELSE {})
    /\ selected_line' = line_map[selected]
    /\ quit' = TRUE
    /\ pc' = "update"
    /\ UNCHANGED <<entries, num_lines, line_map, distance, filtered_lines, text, tokens,
                   reload, refilter, selected>>
    /\ UNCHANGED config_vars
    /\ UNCHANGED aside_vars
    /\ UNCHANGED action_vars
    /\ UNCHANGED event_frame

\* the view under every action of the user
ViewNext ==
    \/ NextPass
    \/ rofi_view_refilter
    \/ rofi_view_update
    \/ handle_keypress
    \/ textbox_keybinding
    \/ rofi_view_trigger_action
    \/ rofi_view_listview_mouse_activated_cb

ViewSpec == Init /\ [][ViewNext]_vars

\* the view under reloads, cursor moves and Cancel
ReloadNext ==
    \/ NextPass
    \/ rofi_view_refilter
    \/ rofi_view_update
    \/ rofi_view_reload_idle
    \/ other_event
    \/ trigger_nav
    \/ trigger_TOGGLE_CASE_SENSITIVITY
    \/ trigger_CANCEL

ReloadSpec == Init /\ [][ReloadNext]_vars

(***************************************************************************)
(* Properties of the filter pass.                                          *)
(***************************************************************************)
\* a pass has completed and nothing has been requested since
PassDone == pc \in {"finish", "idle"}

\* the calling thread is inside rofi_view_refilter
InPass == pc \notin {"create", "idle", "update"}

\* the positions of the published mapping
Positions == 0 .. filtered_lines - 1

\* the candidates in line_map[0 .. filtered_lines)
Mapped == { line_map[p] : p \in Positions }

\* the candidates the pass's tokens match
Matching == { i \in 0 .. num_lines - 1 : mode_token_match(entries, tokens, i) }

\* C1: after a completed pass with a non-empty query, a candidate is in
\* line_map[0 .. filtered_lines) iff mode_token_match is true for it.
C1_TokenAnd ==
    (PassDone /\ Len(text) > 0) =>
        \A i \in 0 .. num_lines - 1 : (i \in Mapped) <=> (i \in Matching)

C1_Witness ==
    /\ pc = "finish" /\ Len(text) > 0 /\ nt = 2
    /\ filtered_lines > 0 /\ filtered_lines < num_lines
    /\ states[0].count < states[0].stop - states[0].start
    /\ states[1].count > 0

\* C2: whenever no pass is in progress, filtered_lines <= num_lines, every entry
\* of line_map[0 .. filtered_lines) is a candidate index below num_lines, and no
\* candidate occurs twice.
C2_MappingSubset ==
    ~InPass =>
        /\ filtered_lines <= num_lines
        /\ \A p \in Positions : line_map[p] \in 0 .. num_lines - 1
        /\ \A p, q \in Positions : line_map[p] = line_map[q] => p = q

C2_Witness ==
    /\ pc = "idle" /\ config_sort /\ Len(text) > 0
    /\ NumThreads(num_lines) > 1
    /\ filtered_lines >= 2 /\ filtered_lines < num_lines
    /\ \E p \in Positions : p + 1 \in Positions /\ line_map[p] > line_map[p + 1]
    /\ \E p \in filtered_lines .. num_lines - 1 : line_map[p] \in Mapped

\* C3: with sorting disabled, after a completed pass the mapping is strictly
\* increasing.
C3_Increasing ==
    (PassDone /\ ~config_sort) =>
        \A p \in Positions : p + 1 \in Positions => line_map[p] < line_map[p + 1]

C3_Witness ==
    /\ pc = "finish" /\ ~config_sort /\ Len(text) > 0 /\ nt = 2
    /\ states[0].count > 0
    /\ states[0].count < states[0].stop - states[0].start
    /\ states[1].count > 0

\* C4: the calling thread merges, sorts and publishes only when every chunk task
\* of the pass is through rofi_view_call_thread and the counter is 0.
C4_Barrier ==
    pc \in {"merge", "sort", "finish"} =>
        /\ count = 0
        /\ \A c \in 0 .. nt - 1 : tpc[c] = "done"

C4_Witness ==
    /\ pc = "merge" /\ nt = 2 /\ signalled /\ k = 0

\* C5: every line_map write of a task is at a position inside its own range,
\* every distance write at an index inside its own range, and no slot is written
\* by two tasks.
InRange(c, x) == c \in DOMAIN states /\ states[c].start <= x /\ x < states[c].stop

C5_DisjointWrites ==
    /\ \A w \in map_writes : InRange(w[1], w[2])
    /\ \A w \in dist_writes : InRange(w[1], w[2])
    /\ \A v, w \in map_writes : v[2] = w[2] => v[1] = w[1]
    /\ \A v, w \in dist_writes : v[2] = w[2] => v[1] = w[1]

C5_Witness ==
    /\ tpc[0] = "filter" /\ tpc[1] \in Running
    /\ \E v, w \in map_writes : v[1] = 0 /\ w[1] = 1
    /\ \E v, w \in dist_writes : v[1] = 0 /\ w[1] = 1

\* A scan of all candidates in index order by one thread, and its ranking.
RECURSIVE ScanUpTo(_)
ScanUpTo(n) ==
    IF n = 0 THEN <<>>
    ELSE IF mode_token_match(entries, tokenize(text), n - 1)
         THEN Append(ScanUpTo(n - 1), n - 1)
         ELSE ScanUpTo(n - 1)

Score(i) == levenshtein(text, Len(text), entries[i], Len(entries[i]))

Ranked == config_sort /\ Len(text) > 0

\* candidate m comes before candidate i in the result
Before(m, i) ==
    IF Ranked THEN Score(m) < Score(i) \/ (Score(m) = Score(i) /\ m < i)
              ELSE m < i

ScanResult ==
    LET scan == IF Len(text) > 0 THEN ScanUpTo(num_lines)
                                 ELSE [p \in 1 .. num_lines |-> p - 1]
        found == { scan[p] : p \in 1 .. Len(scan) }
    IN  [p \in 1 .. Len(scan) |->
            CHOOSE i \in found : Cardinality({ m \in found : Before(m, i) }) = p - 1]

\* C6: the result of a pass is the result of the one-thread scan of the same
\* query, entries and configuration, whatever the interleaving: the same
\* filtered_lines, the same mapping and, where the pass ranks, the same distances.
C6_Deterministic ==
    PassDone =>
        /\ filtered_lines = Len(ScanResult)
        /\ Prefix(line_map, filtered_lines) = ScanResult
        /\ Ranked => \A i \in Mapped : distance[i] = Score(i)

C6_Witness ==
    /\ pc = "finish" /\ nt = 2 /\ config_sort
    /\ filtered_lines >= 3
    /\ signalled
    /\ \E p \in Positions : p + 1 \in Positions /\ line_map[p] > line_map[p + 1]

\* C8: a pass with an empty query goes straight to its end with filtered_lines =
\* num_lines and line_map[i] = i, sets up and pushes no task, writes no distance
\* (the table is the one the pass found, or the zeroed one of its reload step),
\* and its last step leaves the mapping as it is, in identity order, also when
\* sorting is enabled.
C8_EmptyQuery ==
    [][ /\ (~InPass /\ InPass' /\ text = <<>>) =>
              /\ pc' = "finish"
              /\ filtered_lines' = num_lines'
              /\ line_map' = [i \in 0 .. num_lines' - 1 |-> i]
              /\ distance' = (IF reload \/ pc = "idle" THEN Zeroed(num_lines')
                                                       ELSE distance)
              /\ tpc' = NoTasks /\ nt' = 0 /\ states' = NoStates
              /\ map_writes' = {} /\ dist_writes' = {}
        /\ (pc = "finish" /\ text = <<>>) =>
              /\ tpc = NoTasks /\ dist_writes = {}
              /\ UNCHANGED <<line_map, distance, filtered_lines>>
      ]_vars

C8_Witness ==
    /\ pc = "finish" /\ text = <<>> /\ config_sort
    /\ NumThreads(num_lines) > 1
    /\ \E p \in 0 .. num_lines - 2 : distance[p] > distance[p + 1]

\* C9: with sorting enabled and a non-empty query, after the pass the mapping is
\* in ascending order of distance and holds exactly the matched candidates, each
\* once.
C9_AscendingDistance ==
    (PassDone /\ config_sort /\ Len(text) > 0) =>
        /\ \A p, q \in Positions :
              p < q => distance[line_map[p]] <= distance[line_map[q]]
        /\ Mapped = Matching
        /\ Cardinality(Mapped) = filtered_lines

C9_Witness ==
    /\ pc = "finish" /\ config_sort /\ Len(text) > 0
    /\ filtered_lines >= 2
    /\ filtered_lines < num_lines
    /\ \E p, q \in Positions :
          p < q /\ line_map[p] > line_map[q]
                /\ distance[line_map[p]] < distance[line_map[q]]

\* C10: of two matched candidates with equal distance, the one with the smaller
\* candidate index comes first in the sorted mapping.
C10_Stable ==
    (PassDone /\ config_sort /\ Len(text) > 0) =>
        \A p, q \in Positions :
            (p < q /\ distance[line_map[p]] = distance[line_map[q]])
                => line_map[p] < line_map[q]

C10_Witness ==
    /\ pc = "finish" /\ config_sort /\ Len(text) > 0
    /\ \E p, q \in Positions :
          p < q /\ distance[line_map[p]] = distance[line_map[q]]
    /\ \E p, q \in Positions : p < q /\ line_map[p] > line_map[q]

(***************************************************************************)
(* Scheduling: the calling thread keeps running; the pool runs every       *)
(* pushed task; a thread that keeps finding the mutex free gets it.  A     *)
(* return of g_cond_wait without a signal is possible but never promised.  *)
(***************************************************************************)
MainStep ==
    \/ rofi_view_create
    \/ Dispatch
    \/ CallThread
    \/ BarrierLock
    \/ BarrierTest
    \/ CondWake
    \/ BarrierUnlock
    \/ Merge
    \/ SortPublish
    \/ Finish

Fairness ==
    /\ WF_vars(MainStep)
    /\ \A c \in Chunks :
          /\ WF_vars(PoolTake(c))
          /\ WF_vars(filter_elements(c) \/ TaskDec(c) \/ TaskUnlock(c))
          /\ SF_vars(TaskLock(c))

\* the pass that rofi_view_create runs, on its own
PassSpec == Init /\ [][NextPass]_vars /\ Fairness

\* C7: under that scheduling every filter pass passes the barrier and returns.
C7_PassTerminates == InPass ~> (pc = "idle")

\* a pass in which the calling thread went to sleep in g_cond_wait and was woken
C7_Witness ==
    /\ pc = "barrier_unlock" /\ nt = 2 /\ signalled /\ config_threads = 1

(***************************************************************************)
(* The pass under fuzzy matching.                                          *)
(***************************************************************************)
\* the pass that rofi_view_create runs when rofi was started with -matching fuzzy
FuzzySpec == FuzzyInit /\ [][NextPass]_vars

\* the scorer of the pass is the fuzzy one
FuzzyScored == config_matching_method = "MM_FUZZY" /\ ~config_levenshtein_sort

\* C11: with sorting enabled and fuzzy scoring, after the pass the values stored
\* in the distance table are in descending order along the mapping.
C11_DescendingScore ==
    (PassDone /\ config_sort /\ FuzzyScored /\ Len(text) > 0) =>
        \A p, q \in Positions :
            p < q => distance[line_map[p]] >= distance[line_map[q]]

(***************************************************************************)
(* Properties of rofi_view_trigger_action.                                 *)
(***************************************************************************)
\* the step is the call rofi_view_trigger_action ( state, act )
Step(act) == pc = "idle" /\ action' = act

\* the cursor is on a row of the list
CursorValid == selected < filtered_lines

\* what Commit yields from the current state, as C12 states it
CommitRetv == IF CursorValid THEN {"MENU_OK"} ELSE {"MENU_CUSTOM_INPUT"}
CommitLine == IF CursorValid THEN line_map[selected] ELSE UINT32_MAX

\* C12: ACCEPT_ENTRY sets quit; with the cursor on a row it yields MENU_OK and
\* selected_line = line_map[cursor], otherwise MENU_CUSTOM_INPUT and
\* selected_line = UINT32_MAX.
C12_Commit ==
    [][ Step("ACCEPT_ENTRY") =>
            /\ quit'
            /\ IF CursorValid
               THEN retv' = {"MENU_OK"} /\ selected_line' = line_map[selected]
               ELSE retv' = {"MENU_CUSTOM_INPUT"} /\ selected_line' = UINT32_MAX
      ]_vars

C12_Witness ==
    /\ action = "ACCEPT_ENTRY" /\ quit /\ retv = {"MENU_OK"}
    /\ selected > 0 /\ selected < filtered_lines
    /\ selected_line = line_map[selected] /\ selected_line # selected

\* C13: ACCEPT_ALT yields what ACCEPT_ENTRY would yield from the same state, with
\* MENU_CUSTOM_ACTION added to retv and nothing else different.
C13_CommitAlt ==
    [][ Step("ACCEPT_ALT") =>
            /\ quit'
            /\ selected_line' = CommitLine
            /\ retv' = CommitRetv \cup {"MENU_CUSTOM_ACTION"}
            /\ "MENU_CUSTOM_ACTION" \notin CommitRetv
      ]_vars

C13_Witness ==
    /\ action = "ACCEPT_ALT" /\ quit
    /\ retv = {"MENU_CUSTOM_INPUT", "MENU_CUSTOM_ACTION"}
    /\ selected_line = UINT32_MAX /\ filtered_lines = 0 /\ num_lines > 0

\* C14: DELETE_ENTRY with the cursor on a row ends the view with MENU_ENTRY_DELETE
\* and selected_line = line_map[cursor]; with the cursor on no row it returns
\* FALSE and leaves retv, quit, selected_line, the mapping and refilter alone.
C14_DeleteEntry ==
    [][ Step("DELETE_ENTRY") =>
            IF CursorValid
            THEN /\ retv' = {"MENU_ENTRY_DELETE"}
                 /\ selected_line' = line_map[selected]
                 /\ quit' /\ ret'
            ELSE /\ ret' = FALSE
                 /\ UNCHANGED <<retv, quit, selected_line, line_map, filtered_lines,
                                refilter>>
      ]_vars

C14_Witness ==
    /\ action = "DELETE_ENTRY" /\ ~ret /\ ~quit
    /\ filtered_lines = 0 /\ num_lines > 0 /\ prev_action = "ROW_TAB"

\* C15 as claimed: a quick-switch action with the cursor on no row is rejected
\* and leaves retv, quit and selected_line alone.
C15_QuickSwitchRejected ==
    [][ ((\E act \in DOMAIN CUSTOM : Step(act)) /\ ~CursorValid) =>
            /\ ret' = FALSE
            /\ UNCHANGED <<retv, quit, selected_line>>
      ]_vars

\* MENU_QUICK_SWITCH | n for the custom bindings of the model
QuickSwitchRetv ==
    [CUSTOM_1 |-> {"MENU_QUICK_SWITCH"},
     CUSTOM_2 |-> {"MENU_QUICK_SWITCH", "LOWER_1"},
     CUSTOM_4 |-> {"MENU_QUICK_SWITCH", "LOWER_1", "LOWER_2"}]

\* C15 as the code has it: a quick-switch action (CUSTOM_n) with the cursor on no
\* row is accepted: it returns TRUE and ends the view with MENU_QUICK_SWITCH | n-1
\* and selected_line = UINT32_MAX; a SELECT_ELEMENT_n for a row the list does not
\* have returns TRUE too and leaves retv, quit and selected_line alone.
C15_QuickSwitchNoRow ==
    [][ /\ \A act \in DOMAIN CUSTOM :
              (Step(act) /\ ~CursorValid) =>
                  /\ ret'
                  /\ quit'
                  /\ retv' = QuickSwitchRetv[act]
                  /\ selected_line' = UINT32_MAX
        /\ \A act \in DOMAIN SELECT_ELEMENT :
              (Step(act) /\ ~CursorValid) =>
                  /\ ret'
                  /\ UNCHANGED <<retv, quit, selected_line>>
      ]_vars

C15_Witness ==
    /\ action = "CUSTOM_4" /\ quit /\ ret
    /\ filtered_lines = 0 /\ num_lines > 0
    /\ retv = QuickSwitchRetv.CUSTOM_4
    /\ selected_line = UINT32_MAX

\* C16: ROW_TAB on a list of exactly one row ends the view with MENU_OK, quit and
\* selected_line = line_map[0], whatever came before.
C16_TabSingle ==
    [][ (Step("ROW_TAB") /\ filtered_lines = 1) =>
            /\ retv' = {"MENU_OK"}
            /\ quit'
            /\ selected_line' = line_map[0]
      ]_vars

C16_Witness ==
    /\ action = "ROW_TAB" /\ quit /\ retv = {"MENU_OK"}
    /\ filtered_lines = 1 /\ num_lines > 1
    /\ prev_action = "ROW_TAB"
    /\ selected_line = line_map[0] /\ selected_line > 0

\* C17: ROW_TAB on an empty list ends the view with MENU_NEXT and selected_line 0
\* if and only if the action just before it was ROW_TAB as well.
C17_DoubleTab ==
    [][ (Step("ROW_TAB") /\ filtered_lines = 0) =>
            ((quit' /\ retv' = {"MENU_NEXT"} /\ selected_line' = 0) <=> tab_preceded)
      ]_vars

\* C18: CANCEL ends the view with MENU_CANCEL and quit, and leaves selected_line,
\* the mapping and filtered_lines alone, from every state.
C18_Cancel ==
    [][ Step("CANCEL") =>
            /\ retv' = {"MENU_CANCEL"}
            /\ quit'
            /\ UNCHANGED <<selected_line, line_map, filtered_lines>>
      ]_vars

C18_Witness ==
    /\ action = "CANCEL" /\ quit /\ retv = {"MENU_CANCEL"}
    /\ refilter /\ reload
    /\ selected > 0 /\ selected < filtered_lines
    /\ selected_line = 0

\* C19: the last step of every pass, and no other step of it, decides auto
\* select: with config.auto_select, filtered_lines = 1 and num_lines > 1 it ends
\* the view with MENU_OK, quit and selected_line the one matching candidate;
\* otherwise the pass leaves retv, quit and selected_line as they were.
C19_AutoAccept ==
    [][ /\ pc = "finish" =>
              IF config_auto_select /\ filtered_lines = 1 /\ num_lines > 1
              THEN /\ retv' = {"MENU_OK"}
                   /\ quit'
                   /\ Matching = {selected_line'}
              ELSE UNCHANGED <<retv, quit, selected_line>>
        /\ (InPass /\ pc # "finish") => UNCHANGED <<retv, quit, selected_line>>
        /\ pc \in {"create", "update"} => UNCHANGED <<retv, quit, selected_line>>
      ]_vars

C19_Witness ==
    /\ pc = "idle" /\ quit /\ retv = {"MENU_OK"}
    /\ config_auto_select /\ filtered_lines = 1 /\ num_lines > 1
    /\ selected_line = line_map[0] /\ selected_line > 0
    /\ NumThreads(num_lines) > 1

\* the actions that move the cursor
NavActions == {"ROW_FIRST", "ROW_LAST", "ROW_UP", "ROW_DOWN", "ROW_LEFT", "ROW_RIGHT",
               "PAGE_PREV", "PAGE_NEXT"}

\* C20: on an empty list every cursor move leaves the cursor at none and leaves
\* retv, quit, selected_line, the mapping and refilter alone.
C20_NavEmpty ==
    [][ ((\E act \in NavActions : Step(act)) /\ filtered_lines = 0) =>
            /\ selected = UINT32_MAX
            /\ selected' = UINT32_MAX
            /\ UNCHANGED <<retv, quit, selected_line, line_map, filtered_lines, refilter>>
      ]_vars

C20_Witness ==
    /\ action = "ROW_FIRST" /\ pc = "update"
    /\ filtered_lines = 0 /\ num_lines > 1
    /\ selected = UINT32_MAX /\ ~quit

(***************************************************************************)
(* The pass under pools of several sizes, and the dispatch loop of         *)
(* rofi_view_refilter on its own, with the chunk size view.c has.          *)
(***************************************************************************)
\* config.threads as rofi_view_workers_initialize leaves it: 1, or a count of processors
PoolSizes == {1, 4}

\* rofi started with the default matching method and a pool of one of these sizes
PoolInit ==
    /\ CreatedWith(PoolSizes)
    /\ config_matching_method = "MM_NORMAL"
    /\ config_levenshtein_sort = FALSE

PoolSpec == PoolInit /\ [][NextPass]_vars

\* num_lines / 500
LINES_PER_THREAD == 500

\* The dispatch loop is looked at for every num_lines up to this one, and for some
\* large ones.
MaxPartitionLines == 1600
LargeLines == {250999, 251000, 400000}
PartitionLines == (0 .. MaxPartitionLines) \cup LargeLines

\* rofi_view_call_thread ( &states[0], NULL ): the caller runs the first chunk
Called(i) == i = 0

\* before any view exists: the pool is set up, a Mode holds partition.n candidates
PartitionInit ==
    /\ partition \in [n : PartitionLines, threads : PoolSizes, nt : {0},
                      states : {NoStates}]
    /\ config_threads = partition.threads
    /\ entries = <<>>
    /\ num_lines = 0
    /\ line_map = Zeroed(0)
    /\ distance = Zeroed(0)
    /\ filtered_lines = 0
    /\ text = <<>>
    /\ tokens = <<>>
    /\ reload = FALSE
    /\ refilter = FALSE
    /\ selected_line = UINT32_MAX
    /\ retv = {"MENU_CANCEL"}
    /\ quit = FALSE
    /\ selected = 0
    /\ config_sort = FALSE
    /\ config_auto_select = FALSE
    /\ config_matching_method = "MM_NORMAL"
    /\ config_levenshtein_sort = FALSE
    /\ prev_action = "PASTE_PRIMARY"
    /\ action = "none"
    /\ ret = TRUE
    /\ tab_preceded = FALSE
    /\ pc = "none"
    /\ PassIdle
    /\ current_active_menu = NULL
    /\ views = <<>>
    /\ idle_timeout = 0
    /\ sources = {}
    /\ unmatched = <<>>

\* nt, steps and the whole loop over states[i]: the descriptors, and who is handed each
Partition ==
    /\ pc = "none"
    /\ partition.nt = 0
    /\ LET n   == partition.n
           cnt == ChunkCount(n, LINES_PER_THREAD)
           st  == ChunkSteps(n, cnt)
       IN  partition' = [partition EXCEPT
               !.nt = cnt,
               !.states = [i \in 0 .. cnt - 1 |->
                              [start  |-> DescStart(i, st),
                               stop   |-> DescStop(n, i, st),
                               count  |-> 0,
                               pushed |-> Pushed(i),
                               called |-> Called(i)]]]
    /\ UNCHANGED view_vars
    /\ UNCHANGED config_vars
    /\ UNCHANGED action_vars
    /\ UNCHANGED pass_vars
    /\ UNCHANGED cache_vars

PartitionSpec == PartitionInit /\ [][Partition]_vars

(***************************************************************************)
(* Properties of the dispatch: how many chunks, who runs them.             *)
(***************************************************************************)
\* the chunks handed to the pool so far
PushedTasks == { c \in Chunks : IF c = 0 THEN tpc[c] = "queued" ELSE tpc[c] # "none" }

C22_SingleChunk ==
    nt = 1 =>
        /\ PushedTasks = {}
        /\ \A c \in Chunks : c > 0 => tpc[c] = "none"
        /\ pc \notin {"barrier_lock", "barrier_test", "waiting", "barrier_unlock"}
        /\ mutex # <<"main">>
        /\ 0 \in DOMAIN states =>
               states[0].start = 0 /\ states[0].stop = num_lines

C22_Witness ==
    /\ nt = 1 /\ pc = "merge" /\ num_lines = 3 /\ tpc[0] = "done"
    /\ config_threads = 4 /\ states[0].count > 0

\* C23 as stated: with config.threads = 1 no pass hands a job to a pool thread,
\* however many candidates there are.
C23_NoPoolJob ==
    config_threads = 1 => \A c \in Chunks : c > 0 => tpc[c] \notin Running

(***************************************************************************)
(* Properties of the chunk descriptors, with 500 candidates per chunk.     *)
(***************************************************************************)
PartitionDone == partition.nt > 0

\* filter_elements with descriptor d examines candidate x
Examines(d, x) == d.start <= x /\ x < d.stop

\* the number of candidates the chunks lo .. hi examine between them
RECURSIVE ExaminedIn(_, _, _)
ExaminedIn(st, lo, hi) ==
    IF lo > hi THEN 0
    ELSE IF lo = hi THEN Max(0, st[lo].stop - st[lo].start)
    ELSE LET mid == (lo + hi) \div 2
         IN  ExaminedIn(st, lo, mid) + ExaminedIn(st, mid + 1, hi)

\* the tasks a descriptor is handed to
TasksOf(d) == (IF d.pushed THEN {"pool"} ELSE {}) \cup (IF d.called THEN {"caller"} ELSE {})

\* C24: for every num_lines the chunks cover [0, num_lines) exactly once: every
\* candidate index is examined by exactly one chunk, none is skipped and none is
\* examined twice; and each chunk is executed by exactly one task.
C24_ExactCover ==
    PartitionDone =>
        LET n  == partition.n
            st == partition.states
        IN  /\ n <= MaxPartitionLines =>
                   \A x \in 0 .. n - 1 :
                       Cardinality({ c \in DOMAIN st : Examines(st[c], x) }) = 1
            /\ \A c \in DOMAIN st :
                   st[c].start < st[c].stop => 0 <= st[c].start /\ st[c].stop <= n
            /\ \A c, d \in DOMAIN st :
                   (c < d /\ st[c].start < st[c].stop /\ st[d].start < st[d].stop)
                       => st[c].stop <= st[d].start
            /\ ExaminedIn(st, 0, partition.nt - 1) = n
            /\ \A c \in DOMAIN st : Cardinality(TasksOf(st[c])) = 1

C24_Witness ==
    /\ PartitionDone /\ partition.n = 251000
    /\ \E c \in DOMAIN partition.states :
           partition.states[c].start > partition.states[c].stop

\* C25 as stated: 1000 candidates with a thread budget of 4 make 4 chunks of 250.
C25_FourChunks ==
    (PartitionDone /\ partition.n = 1000 /\ partition.threads = 4) =>
        /\ partition.nt = 4
        /\ \A c \in DOMAIN partition.states :
               partition.states[c].stop - partition.states[c].start = 250

\* C25, amended: 1000 candidates make 2 chunks, [0, 501) and [501, 1000), of 501
\* and 499 candidates, with a thread budget of 4 as with any other.
C25_TwoChunks ==
    (PartitionDone /\ partition.n = 1000) =>
        /\ partition.nt = 2
        /\ DOMAIN partition.states = {0, 1}
        /\ partition.states[0].start = 0 /\ partition.states[0].stop = 501
        /\ partition.states[1].start = 501 /\ partition.states[1].stop = 1000

C25_Witness ==
    PartitionDone /\ partition.n = 1000 /\ partition.threads = 4

\* C29 as stated: for every num_lines the descriptors are well formed: chunk 0
\* starts at 0, every later chunk starts where the one before it stops, start <=
\* stop <= num_lines in every chunk, and the last chunk stops at num_lines.
C29_WellFormed ==
    PartitionDone =>
        LET n  == partition.n
            st == partition.states
        IN  /\ st[0].start = 0
            /\ \A c \in DOMAIN st : c > 0 => st[c].start = st[c - 1].stop
            /\ \A c \in DOMAIN st : st[c].start <= st[c].stop /\ st[c].stop <= n
            /\ st[partition.nt - 1].stop = n

(***************************************************************************)
(* Properties of the arrays and flags of the view across passes.           *)
(***************************************************************************)
\* line_map and distance have num_lines slots each
Capacity ==
    /\ DOMAIN line_map = 0 .. num_lines - 1
    /\ DOMAIN distance = 0 .. num_lines - 1

\* the step changes the candidate count or the capacity of an array
Resized ==
    \/ num_lines' # num_lines
    \/ DOMAIN line_map' # DOMAIN line_map
    \/ DOMAIN distance' # DOMAIN distance

\* a chunk task is queued or running
TaskAlive == \E c \in Chunks : tpc[c] = "queued" \/ tpc[c] \in Running

\* C26: num_lines and the capacities of line_map and distance change only in the
\* reload step that opens a pass, with the reload flag set (by an earlier request,
\* or by rofi_view_switch_mode right before its pass), never while a chunk task is
\* queued or running; the arrays always have exactly num_lines slots; and when a
\* pass completes, reload and refilter are both FALSE.
C26_ReloadOnly ==
    /\ []Capacity
    /\ [][ /\ Resized => /\ ~InPass /\ InPass'
                         /\ reload \/ pc = "idle"
                         /\ ~TaskAlive /\ ~TaskAlive'
           /\ (InPass /\ ~InPass') => (~reload' /\ ~refilter')
           /\ InPass => ~reload
         ]_vars

C26_Witness ==
    /\ pc = "in_call" /\ nt = 2 /\ tpc[1] \in Running /\ tpc[0] = "filter"
    /\ num_lines = 4 /\ Capacity /\ ~reload /\ refilter /\ action = "none"
    /\ filtered_lines = 3

(***************************************************************************)
(* Properties of the distance table during a pass.                         *)
(***************************************************************************)
\* the step is an iteration of filter_elements for chunk c
FilterStep(c) == tpc[c] = "filter" /\ fi'[c] = fi[c] + 1

\* C27: an iteration of filter_elements on candidate i stores distance[i] if and
\* only if i matched and config.sort is set, calling the scorer for it, and leaves
\* every other entry as it is; no other step of the pass after its reload step
\* changes the table.  So the entries of non-matching candidates, and all entries
\* when sorting is disabled, are as the pass found them.
C27_DistanceFrame ==
    [][ /\ \A c \in Chunks : FilterStep(c) =>
               LET i     == fi[c]
                   match == mode_token_match(entries, tokens, i)
                   str   == mode_get_completion(entries, i)
               IN  /\ (<<c, i>> \in dist_writes') <=> (match /\ config_sort)
                   /\ dist_writes' \subseteq dist_writes \cup {<<c, i>>}
                   /\ distance' =
                          IF match /\ config_sort
                          THEN [distance EXCEPT ![i] = Scorer(text, Len(text), str, Len(str))]
                          ELSE distance
        /\ (InPass /\ \A c \in Chunks : ~FilterStep(c)) =>
               /\ distance' = distance
               /\ dist_writes' \subseteq dist_writes
      ]_vars

C27_Witness ==
    /\ pc = "finish" /\ ~config_sort /\ nt = 2 /\ text # <<>>
    /\ map_writes # {} /\ dist_writes = {}
    /\ \E i \in 0 .. num_lines - 1 : ~mode_token_match(entries, tokens, i)
    /\ \E i \in 0 .. num_lines - 1 :
           mode_token_match(entries, tokens, i) /\ distance[i] # 0

(***************************************************************************)
(* Properties of the order of passes and actions.                          *)
(***************************************************************************)
\* the view under the key events that change the query or a setting, and those
\* that yield a candidate
KeyNext ==
    \/ NextPass
    \/ rofi_view_refilter
    \/ rofi_view_update
    \/ handle_keypress
    \/ textbox_keybinding
    \/ toggle_sort
    \/ trigger_TOGGLE_CASE_SENSITIVITY
    \/ rofi_view_nav_row_select
    \/ trigger_DELETE_ENTRY
    \/ trigger_SELECT_ELEMENT
    \/ trigger_CUSTOM
    \/ trigger_ACCEPT_ALT
    \/ trigger_ACCEPT_ENTRY

KeySpec == Init /\ [][KeyNext]_vars

\* the actions that yield a candidate: commit, delete, select element, quick switch
YieldActions ==
    {"ACCEPT_ENTRY", "ACCEPT_ALT", "DELETE_ENTRY"}
        \cup DOMAIN SELECT_ELEMENT \cup DOMAIN CUSTOM

\* the published mapping is the one a scan with the current text, entries and
\* config.sort gives
MappingCurrent ==
    /\ filtered_lines = Len(ScanResult)
    /\ Prefix(line_map, filtered_lines) = ScanResult
    /\ tokens = (IF Len(text) > 0 THEN tokenize(text) ELSE <<>>)

PastBarrier == pc \in {"barrier_unlock", "merge", "sort", "finish"}

\* C30: once the calling thread is past the barrier, and from then on until the
\* next pass has set up its own tasks, no chunk task is queued or inside
\* rofi_view_call_thread (where it uses its descriptor, the pattern, the mutex, the
\* condition and the counter), no task holds the mutex and the counter is 0; so
\* g_cond_clear, g_mutex_clear, g_free ( pattern ) and the return race with no
\* worker, and no task of an earlier pass is alive when a pass begins.
C30_NoTaskLeft ==
    (PastBarrier \/ ~InPass) =>
        /\ ~TaskAlive
        /\ \A c \in Chunks : tpc[c] \in {"none", "done"}
        /\ mutex \in {MutexFree, <<"main">>}
        /\ count = 0

C30_Witness ==
    /\ pc = "barrier_unlock" /\ nt = 2 /\ mutex = <<"main">>
    /\ tpc[0] = "done" /\ tpc[1] = "done"
    /\ filtered_lines > 0 /\ ~signalled

NextPosition == IF selected = UINT32_MAX THEN 0 ELSE selected + 1

\* rofi_view_get_next_position: if ( ( selected + 1 ) < state->num_lines )
ReadsNext == NextPosition < num_lines

rofi_view_get_next_position ==
    IF ReadsNext THEN line_map[NextPosition] ELSE selected_line

\* C32 as stated: between events, rofi_view_get_next_position reads line_map only
\* at a position below filtered_lines, and so returns selected_line or an entry of
\* line_map[0 .. filtered_lines).
C32_NextInMapping ==
    pc = "idle" =>
        /\ ReadsNext => NextPosition < filtered_lines
        /\ rofi_view_get_next_position \in Mapped \cup {selected_line}

(***************************************************************************)
(* The globals of view.c: the active view, the stack of views and the      *)
(* reload timer, under any sequence of calls from outside.                 *)
(***************************************************************************)
\* the views that exist, the depth the stack can reach, the ids of timeout sources
MaxViews == 2
MaxDepth == 3
MaxSourceId == 2

Views == 1 .. MaxViews
SourceIds == 1 .. MaxSourceId

\* rofi has come up and created its views; the one the model follows has run its
\* first pass over an empty Mode with an empty query; no view is active yet
CacheInit ==
    /\ entries = <<>>
    /\ num_lines = 0
    /\ line_map = Zeroed(0)
    /\ distance = Zeroed(0)
    /\ filtered_lines = 0
    /\ text = <<>>
    /\ tokens = <<>>
    /\ reload = FALSE
    /\ refilter = FALSE
    /\ selected_line = UINT32_MAX
    /\ retv = {"MENU_CANCEL"}
    /\ quit = FALSE
    /\ selected = UINT32_MAX
    /\ config_sort = FALSE
    /\ config_auto_select = FALSE
    /\ config_threads \in ThreadChoices
    /\ config_matching_method = "MM_NORMAL"
    /\ config_levenshtein_sort = FALSE
    /\ prev_action = "PASTE_PRIMARY"
    /\ action = "none"
    /\ ret = TRUE
    /\ tab_preceded = FALSE
    /\ pc = "idle"
    /\ PassIdle
    /\ partition = NoPartition
    /\ current_active_menu = NULL
    /\ views = <<>>
    /\ idle_timeout = 0
    /\ sources = {}
    /\ unmatched = <<>>

\* a call that never stacks
StackApplies_never(cur, state) == FALSE

\* if ( current_active_menu != NULL && state != NULL )
StackApplies(cur, state) == cur # NULL /\ state # NULL

\* else if ( state == NULL && !g_queue_is_empty ( &( CacheState.views ) ) )
PopApplies(state, q) == state = NULL /\ q # <<>>

\* the view put at the far end of the queue
g_queue_push_tail(q, x) == Append(q, x)

g_queue_push_head(q, x) == <<x>> \o q

\* the condition of the g_assert in rofi_view_set_active
AssertActive(cur, state) ==
    (cur = NULL /\ state # NULL) \/ (cur # NULL /\ state = NULL)

\* what the calls so far make of the history of unmatched stacking calls
Unmatched(cur, state, u) ==
    IF state # NULL /\ cur # NULL THEN Append(u, cur)
    ELSE IF state = NULL /\ u # <<>> THEN SubSeq(u, 1, Len(u) - 1)
    ELSE u

\* rofi_view_set_active ( state ); a failed g_assert aborts
rofi_view_set_active(state) ==
    /\ pc = "idle"
    /\ IF StackApplies(current_active_menu, state)
       THEN /\ Len(views) < MaxDepth
            /\ views' = g_queue_push_head(views, current_active_menu)
            /\ current_active_menu' = state
            /\ pc' = pc
       ELSE IF PopApplies(state, views)
       THEN /\ current_active_menu' = Head(views)
            /\ views' = Tail(views)
            /\ pc' = pc
       ELSE IF AssertActive(current_active_menu, state)
       THEN /\ current_active_menu' = state
            /\ UNCHANGED <<views, pc>>
       ELSE /\ pc' = "set_active_abort"
            /\ UNCHANGED <<current_active_menu, views>>
    /\ unmatched' = IF pc' = "idle"
                    THEN Unmatched(current_active_menu, state, unmatched)
                    ELSE unmatched
    /\ UNCHANGED <<idle_timeout, sources>>
    /\ UNCHANGED view_vars
    /\ UNCHANGED config_vars
    /\ UNCHANGED action_vars
    /\ UNCHANGED event_frame
    /\ UNCHANGED partition

\* a timer scheduled whether or not one is pending
TimerIdle_always(t) == TRUE

\* if ( CacheState.idle_timeout == 0 )
TimerIdle(t) == t = 0

\* rofi_view_reload; g_timeout_add returns the id of the new source
rofi_view_reload ==
    /\ pc = "idle"
    /\ IF TimerIdle(idle_timeout)
       THEN \E id \in SourceIds \ sources :
                /\ idle_timeout' = id
                /\ sources' = sources \cup {id}
       ELSE UNCHANGED <<idle_timeout, sources>>
    /\ UNCHANGED <<current_active_menu, views, unmatched>>
    /\ UNCHANGED view_vars
    /\ UNCHANGED config_vars
    /\ UNCHANGED action_vars
    /\ UNCHANGED pass_vars
    /\ UNCHANGED partition

\* the main loop runs a timeout source: rofi_view_reload_idle, which returns
\* G_SOURCE_REMOVE.  Of the views only TheView has its fields in the model.
reload_idle_source ==
    /\ pc = "idle"
    /\ \E id \in sources : sources' = sources \ {id}
    /\ IF current_active_menu = TheView
       THEN reload' = TRUE /\ refilter' = TRUE
       ELSE UNCHANGED <<reload, refilter>>
    /\ idle_timeout' = 0
    /\ UNCHANGED <<current_active_menu, views, unmatched>>
    /\ UNCHANGED <<entries, num_lines, line_map, distance, filtered_lines, text, tokens,
                   selected_line, retv, quit, selected>>
    /\ UNCHANGED config_vars
    /\ UNCHANGED action_vars
    /\ UNCHANGED pass_vars
    /\ UNCHANGED partition

\* rofi_view_cleanup: the pending source removed; g_assert that no view is stacked
rofi_view_cleanup ==
    /\ pc = "idle"
    /\ IF idle_timeout > 0
       THEN sources' = sources \ {idle_timeout} /\ idle_timeout' = 0
       ELSE UNCHANGED <<idle_timeout, sources>>
    /\ pc' = IF views = <<>> THEN pc ELSE "cleanup_abort"
    /\ UNCHANGED <<current_active_menu, views, unmatched>>
    /\ UNCHANGED view_vars
    /\ UNCHANGED config_vars
    /\ UNCHANGED action_vars
    /\ UNCHANGED event_frame
    /\ UNCHANGED partition

CacheNext ==
    \/ \E state \in Views \cup {NULL} : rofi_view_set_active(state)
    \/ rofi_view_reload
    \/ reload_idle_source
    \/ rofi_view_cleanup

CacheSpec == CacheInit /\ [][CacheNext]_vars

C34_Lifo ==
    /\ [](Len(views) = Len(unmatched))
    /\ [][ \A state \in Views \cup {NULL} :
               (rofi_view_set_active(state) /\ pc' = "idle") =>
                   /\ (state = NULL /\ unmatched # <<>>) =>
                          current_active_menu' = unmatched[Len(unmatched)]
                   /\ (current_active_menu # NULL /\ current_active_menu' = NULL) =>
                          (views = <<>> /\ unmatched = <<>>)
         ]_vars

C34_Witness ==
    /\ pc = "idle" /\ Len(views) = 2 /\ views[1] # views[2]
    /\ unmatched = <<views[2], views[1]>>
    /\ current_active_menu # NULL

(***************************************************************************)
(* Properties of the reload timer.                                         *)
(***************************************************************************)
\* C35: at most one reload timer is pending, idle_timeout is nonzero exactly while
\* one is; rofi_view_reload while one is pending schedules nothing, so the calls
\* made while it is pending are answered by one run of rofi_view_reload_idle;
\* that run leaves idle_timeout 0 and, if the view is active, its reload and
\* refilter flags both TRUE.
C35_Coalesced ==
    /\ [](/\ Cardinality(sources) <= 1
          /\ (idle_timeout # 0) <=> (sources # {})
          /\ (idle_timeout # 0) => (sources = {idle_timeout}))
    /\ [][ /\ (rofi_view_reload /\ idle_timeout # 0) =>
                  UNCHANGED <<idle_timeout, sources>>
           /\ (rofi_view_reload /\ idle_timeout = 0) =>
                  (idle_timeout' # 0 /\ Cardinality(sources') = 1)
           /\ reload_idle_source =>
                  /\ idle_timeout' = 0
                  /\ sources' = {}
                  /\ (current_active_menu = TheView) => (reload' /\ refilter')
         ]_vars

C35_Witness ==
    /\ pc = "idle" /\ idle_timeout = 0 /\ sources = {}
    /\ current_active_menu = TheView /\ reload /\ refilter
    /\ views # <<>>

(***************************************************************************)
(* rofi_view_set_selected_line, called between two events of a view.       *)
(***************************************************************************)
\* the lines a caller asks for: a candidate, one past the candidates, or none
LineArgs == (0 .. MaxLines) \cup {UINT32_MAX}

\* the line taken for the position
FindLine_identity(line, lm, rows) == line

\* unsigned int selected = 0; the loop over line_map[0 .. filtered_lines) stops at
\* the first position that holds the line, and does not run for UINT32_MAX
FindLine(line, lm, rows) ==
    IF line < UINT32_MAX /\ \E p \in 0 .. rows - 1 : lm[p] = line
    THEN CHOOSE p \in 0 .. rows - 1 :
             /\ lm[p] = line
             /\ \A q \in 0 .. p - 1 : lm[q] # line
    ELSE 0

rofi_view_set_selected_line(line) ==
    /\ pc = "idle"
    /\ ~quit
    /\ selected_line' = line
    /\ selected' = listview_set_selected(selected, filtered_lines,
                                         FindLine(line, line_map, filtered_lines))
    /\ UNCHANGED <<entries, num_lines, line_map, distance, filtered_lines, text, tokens,
                   reload, refilter, retv, quit>>
    /\ UNCHANGED config_vars
    /\ UNCHANGED action_vars
    /\ UNCHANGED pass_vars
    /\ UNCHANGED aside_vars

SetLineNext ==
    \/ NextPass
    \/ rofi_view_refilter
    \/ rofi_view_update
    \/ handle_keypress
    \/ \E line \in LineArgs : rofi_view_set_selected_line(line)
    \/ trigger_ACCEPT_ENTRY

SetLineSpec == Init /\ [][SetLineNext]_vars

\* what rofi_view_set_selected_line ( state, line ) does for a line of the mapping
SetLineFound(line) ==
    /\ selected' < filtered_lines
    /\ line_map[selected'] = line
    /\ AcceptRetv(selected', filtered_lines') = {"MENU_OK"}
    /\ CursorLine(selected', filtered_lines', line_map') = line

\* C36 as stated: for a line of the mapping the cursor is put on a position that
\* holds it, so that Commit right after yields that line; for any other line, or
\* UINT32_MAX, the cursor is put on position 0; the mapping and filtered_lines
\* are not changed.
C36_RoundTrip ==
    [][ \A line \in LineArgs :
            rofi_view_set_selected_line(line) =>
                /\ UNCHANGED <<line_map, filtered_lines>>
                /\ (line \in Mapped) => SetLineFound(line)
                /\ (line \notin Mapped) => selected' = 0
      ]_vars

\* C36, amended: as stated while the mapping is not empty; on an empty mapping
\* the cursor is left as it is, on no row.
C36_RoundTripUnlessEmpty ==
    [][ \A line \in LineArgs :
            rofi_view_set_selected_line(line) =>
                /\ UNCHANGED <<line_map, filtered_lines>>
                /\ (line \in Mapped) => SetLineFound(line)
                /\ (line \notin Mapped /\ filtered_lines > 0) => selected' = 0
                /\ (line \notin Mapped /\ filtered_lines = 0) =>
                       (selected' = selected /\ selected' = UINT32_MAX)
      ]_vars

C36_Witness ==
    /\ pc = "idle" /\ ~quit
    /\ selected \in 1 .. filtered_lines - 1
    /\ selected_line = line_map[selected]
    /\ selected_line # selected
    /\ filtered_lines < num_lines

====
